---- MODULE Spec2Model ----
(***************************************************************************)
(* Model of porrima.py: the command loop chatbot(), the wallet registry    *)
(* (wallets, current_wallet), the content cache, and the handlers the loop *)
(* dispatches to.  One action is one iteration of the `while True` loop.   *)
(* External collaborators (chain client, HTTP endpoints, file system,      *)
(* generation API, TOTP clock, stdin) are nondeterministic inputs.         *)
(***************************************************************************)
EXTENDS Integers, Sequences, FiniteSets, TLC

VARIABLES
    wallets,         \* dict wallet_name -> Keypair                (line 34)
    current_wallet,  \* active wallet name or None                 (line 35)
    content_cache,   \* dict prompt -> generated text              (line 38)
    pc,              \* "awaiting" | "exited" | "crashed"
    command,         \* tokens of the line read by the last iteration
    printed,         \* what the last iteration print()ed
    logged,          \* what the last iteration logged through logging.*
    calls,           \* external calls made by the last iteration, in order
    raised,          \* exception that reached chatbot's try block, or None
    otp,             \* outcome of the one-time-code check of the last iteration
    key_in,          \* key text typed at the getpass prompt of the last iteration
    overwrote        \* history: the last iteration replaced a stored credential

vars == <<wallets, current_wallet, content_cache, pc, command, printed,
          logged, calls, raised, otp, key_in, overwrote>>

----------------------------------------------------------------------------
(* Bounds of the model *)

MaxArgs == 4        \* longest argument list of a send or generate line
MaxShortArgs == 2   \* longest argument list of a line of any other verb

----------------------------------------------------------------------------
(* Values *)

None == "None"

\* Default arguments of the handlers
DefaultLimit == 10
DefaultMaxTokens == 100
DefaultDecimals == 9

\* Tokens a user may type, by position on the line
Names      == {"alice", "bob"}
RawVerbs   == {"connect_wallet", "switch_wallet", "send", "receive", "nfts",
               "price", "generate", "export_history", "exit",
               "Exit", "HELP"}
KnownVerbs == {"connect_wallet", "switch_wallet", "send", "receive", "nfts",
               "price", "generate", "export_history", "exit"}

ArgAt(i) ==
    CASE i = 1 -> Names
      [] i = 2 -> {"Addr1", "7"}
      [] i = 3 -> {"5", "abc"}
      [] i = 4 -> {"Mint1"}
      [] OTHER -> {"x"}

RECURSIVE ArgLists(_)
ArgLists(n) ==
    IF n = 0 THEN {<<>>}
    ELSE {Append(s, t) : s \in ArgLists(n - 1), t \in ArgAt(n)}

Args == UNION {ArgLists(n) : n \in 0..MaxArgs}
ShortArgs == UNION {ArgLists(n) : n \in 0..MaxShortArgs}

\* Texts typed at the getpass prompt, one-time codes, remote payloads
KeyTexts == {"KeyText1", "KeyText2", "0OIl", "abc", ""}
Codes    == {"123456", "000000"}
Sigs     == {"sig1"}
Texts    == {"text1"}

\* Exception classes a handler can raise; all derive from Exception
ExceptionClasses == {"ValueError", "RPCException", "RequestException",
                     "OSError", "AttributeError"}

----------------------------------------------------------------------------
(* Conversions *)

\* str.lower() on the verbs of RawVerbs
Lower(t) ==
    CASE t = "Exit" -> "exit"
      [] t = "HELP" -> "help"
      [] OTHER -> t

\* int(text): decimal literals parse, anything else raises ValueError
DecimalValue == [t \in {"5", "7"} |-> IF t = "5" THEN 5 ELSE 7]

ParseIntLenient(t) ==
    IF t \in DOMAIN DecimalValue
    THEN [ok |-> TRUE, val |-> DecimalValue[t]]
    ELSE [ok |-> TRUE, val |-> 0]

ParseInt(t) ==
    IF t \in DOMAIN DecimalValue
    THEN [ok |-> TRUE, val |-> DecimalValue[t]]
    ELSE [ok |-> FALSE, val |-> 0]

\* base58.b58decode(text): raises ValueError on a character outside the
\* alphabet (0, O, I, l); otherwise the decoded bytes
B58Decode(t) ==
    CASE t = "KeyText1" -> [ok |-> TRUE, bytes |-> "secret64_1"]
      [] t = "KeyText2" -> [ok |-> TRUE, bytes |-> "secret64_2"]
      [] t = "abc"      -> [ok |-> TRUE, bytes |-> "short"]
      [] t = ""         -> [ok |-> TRUE, bytes |-> "empty"]
      [] OTHER          -> [ok |-> FALSE, bytes |-> ""]

\* Keypair.from_secret_key(bytes): needs a 64-byte secret
KeypairFromSecret(b) ==
    CASE b = "secret64_1" -> [ok |-> TRUE,
                              kp |-> [secret |-> b, public_key |-> "Pub1"]]
      [] b = "secret64_2" -> [ok |-> TRUE,
                              kp |-> [secret |-> b, public_key |-> "Pub2"]]
      [] OTHER            -> [ok |-> FALSE,
                              kp |-> [secret |-> "", public_key |-> ""]]

Keypairs == {KeypairFromSecret(b).kp : b \in {"secret64_1", "secret64_2"}}

\* PublicKey(text): raises ValueError unless the text is a 32-byte base58 key
PublicKeyOk(a) == a \in {"Addr1", "Mint1", "Pub1", "Pub2"}

----------------------------------------------------------------------------
(* Messages *)

Msg(k, v)    == [kind |-> k, val |-> v]
NoMsg        == Msg("none", "")
UsageMsg(c)  == Msg("usage", c)
NotFound(w)  == Msg("not_found", w)
ErrorMsg(e)  == Msg("error", e)
InvalidMsg   == Msg("invalid_command", "")
GoodbyeMsg   == Msg("goodbye", "")

----------------------------------------------------------------------------
(* Wallet registry *)

Put(d, k, v) == [x \in (DOMAIN d) \cup {k} |-> IF x = k THEN v ELSE d[x]]

\* connect_wallet(wallet_name, private_key=None); `typed` is the getpass input
connect_wallet_keep_first(wallet_name, private_key, typed) ==
    LET text == IF private_key = None \/ private_key = "" THEN typed
                ELSE private_key
        dec  == B58Decode(text)
        kp   == KeypairFromSecret(dec.bytes)
    IN  IF dec.ok /\ kp.ok
        THEN [wallets |-> IF wallet_name \in DOMAIN wallets THEN wallets
                          ELSE Put(wallets, wallet_name, kp.kp),
              exc     |-> None,
              log     |-> Msg("info_connected", kp.kp.public_key)]
        ELSE [wallets |-> wallets,
              exc     |-> "ValueError",
              log     |-> Msg("error_connect", "ValueError")]

connect_wallet(wallet_name, private_key, typed) ==
    LET text == IF private_key = None \/ private_key = "" THEN typed
                ELSE private_key
        dec  == B58Decode(text)
        kp   == KeypairFromSecret(dec.bytes)
    IN  IF dec.ok /\ kp.ok
        THEN [wallets |-> Put(wallets, wallet_name, kp.kp),
              exc     |-> None,
              log     |-> Msg("info_connected", kp.kp.public_key)]
        ELSE [wallets |-> wallets,
              exc     |-> "ValueError",
              log     |-> Msg("error_connect", "ValueError")]

switch_wallet_unchecked(wallet_name) ==
    [current |-> wallet_name,
     exc     |-> None,
     log     |-> Msg("info_switched", wallet_name)]

switch_wallet(wallet_name) ==
    IF wallet_name \in DOMAIN wallets
    THEN [current |-> wallet_name,
          exc     |-> None,
          log     |-> Msg("info_switched", wallet_name)]
    ELSE [current |-> current_wallet,
          exc     |-> None,
          log     |-> Msg("error_not_found", wallet_name)]

----------------------------------------------------------------------------
(* External collaborators: outcomes the environment can produce *)

Call(f, a) == [fn |-> f, arg |-> a]

Fail == [ok |-> FALSE, ret |-> None]
Ok(r) == [ok |-> TRUE, ret |-> r]

SendOutcomes    == {Ok(s) : s \in Sigs} \cup {Fail}
HistoryOutcomes == {Ok("txlist"), Ok(""), Fail}
HttpOutcomes    == {Ok("payload"), Fail}
GenOutcomes     == {Ok(t) : t \in Texts} \cup {Fail}

\* Python truthiness of a returned payload
Truthy(r) == r # "" /\ r # None

----------------------------------------------------------------------------
(* Handlers *)

\* verify_2fa(code): totp.verify against the code valid now
verify_2fa(code, now) == code = now

Res(p, l, c, e, o) ==
    [printed |-> p, logged |-> l, calls |-> c, exc |-> e, otp |-> o]

SubmitCall(sender_keypair, recipient_address, amount, token_address) ==
    Call("send_transaction",
         [signer   |-> sender_keypair,
          from     |-> sender_keypair.public_key,
          to       |-> recipient_address,
          amount   |-> amount,
          mint     |-> token_address,
          decimals |-> IF token_address = None THEN 0 ELSE DefaultDecimals])

\* send_solana_transaction without the early return of the one-time-code gate
send_solana_transaction_no_gate(sender_keypair, recipient_address, amount, token_address, code, now, sign_ok, rpc) ==
    LET o == IF verify_2fa(code, now) THEN "ok" ELSE "bad"
        submit == SubmitCall(sender_keypair, recipient_address, amount,
                             token_address)
    IN  IF ~PublicKeyOk(recipient_address)
        THEN [ret |-> None, exc |-> "ValueError", calls |-> <<>>,
              log |-> NoMsg, otp |-> o]
        ELSE IF token_address # None /\ ~PublicKeyOk(token_address)
        THEN [ret |-> None, exc |-> "ValueError", calls |-> <<>>,
              log |-> NoMsg, otp |-> o]
        ELSE IF ~sign_ok
        THEN [ret |-> None, exc |-> "AttributeError", calls |-> <<>>,
              log |-> NoMsg, otp |-> o]
        ELSE IF rpc.ok
        THEN [ret |-> rpc.ret, exc |-> None, calls |-> <<submit>>,
              log |-> Msg("info_sent", rpc.ret), otp |-> o]
        ELSE [ret |-> None, exc |-> "RPCException", calls |-> <<submit>>,
              log |-> Msg("error_tx_failed", "RPCException"), otp |-> o]

\* send_solana_transaction that submits again after a failed submit
send_solana_transaction_retry(sender_keypair, recipient_address, amount, token_address, code, now, sign_ok, rpc) ==
    LET submit == SubmitCall(sender_keypair, recipient_address, amount,
                             token_address)
    IN  IF ~verify_2fa(code, now)
        THEN [ret |-> None, exc |-> None, calls |-> <<>>,
              log |-> Msg("error_2fa", ""), otp |-> "bad"]
        ELSE IF ~PublicKeyOk(recipient_address)
        THEN [ret |-> None, exc |-> "ValueError", calls |-> <<>>,
              log |-> NoMsg, otp |-> "ok"]
        ELSE IF token_address # None /\ ~PublicKeyOk(token_address)
        THEN [ret |-> None, exc |-> "ValueError", calls |-> <<>>,
              log |-> NoMsg, otp |-> "ok"]
        ELSE IF ~sign_ok
        THEN [ret |-> None, exc |-> "AttributeError", calls |-> <<>>,
              log |-> NoMsg, otp |-> "ok"]
        ELSE IF rpc.ok
        THEN [ret |-> rpc.ret, exc |-> None, calls |-> <<submit>>,
              log |-> Msg("info_sent", rpc.ret), otp |-> "ok"]
        ELSE [ret |-> None, exc |-> "RPCException",
              calls |-> <<submit, submit>>,
              log |-> Msg("error_tx_failed", "RPCException"), otp |-> "ok"]

\* send_solana_transaction(sender_keypair, recipient_address, amount,
\*                         token_address=None, decimals=9)
\* code: the text typed at "Enter 2FA code: "; now: the code valid now;
\* sign_ok: whether transaction.sign succeeds; rpc: outcome of send_transaction
send_solana_transaction(sender_keypair, recipient_address, amount, token_address, code, now, sign_ok, rpc) ==
    LET submit == SubmitCall(sender_keypair, recipient_address, amount,
                             token_address)
    IN  IF ~verify_2fa(code, now)
        THEN [ret |-> None, exc |-> None, calls |-> <<>>,
              log |-> Msg("error_2fa", ""), otp |-> "bad"]
        ELSE IF ~PublicKeyOk(recipient_address)
        THEN [ret |-> None, exc |-> "ValueError", calls |-> <<>>,
              log |-> NoMsg, otp |-> "ok"]
        ELSE IF token_address # None /\ ~PublicKeyOk(token_address)
        THEN [ret |-> None, exc |-> "ValueError", calls |-> <<>>,
              log |-> NoMsg, otp |-> "ok"]
        ELSE IF ~sign_ok
        THEN [ret |-> None, exc |-> "AttributeError", calls |-> <<>>,
              log |-> NoMsg, otp |-> "ok"]
        ELSE IF rpc.ok
        THEN [ret |-> rpc.ret, exc |-> None, calls |-> <<submit>>,
              log |-> Msg("info_sent", rpc.ret), otp |-> "ok"]
        ELSE [ret |-> None, exc |-> "RPCException", calls |-> <<submit>>,
              log |-> Msg("error_tx_failed", "RPCException"), otp |-> "ok"]

\* receive_solana_transactions(wallet_address, limit=10)
receive_solana_transactions(wallet_address, limit, rpc) ==
    LET c == Call("get_signatures_for_address",
                  [address |-> wallet_address, limit |-> limit])
    IN  IF ~PublicKeyOk(wallet_address)
        THEN [ret |-> None, exc |-> "ValueError", calls |-> <<>>, log |-> NoMsg]
        ELSE IF rpc.ok
        THEN [ret |-> rpc.ret, exc |-> None, calls |-> <<c>>, log |-> NoMsg]
        ELSE [ret |-> None, exc |-> "RPCException", calls |-> <<c>>,
              log |-> Msg("error_fetch_failed", "RPCException")]

\* get_nfts(wallet_address): every failure is logged and turned into None
get_nfts(wallet_address, http) ==
    [ret   |-> IF http.ok THEN http.ret ELSE None,
     exc   |-> None,
     calls |-> <<Call("get_nfts", [address |-> wallet_address])>>,
     log   |-> IF http.ok THEN NoMsg ELSE Msg("error_nfts", "")]

\* get_sol_price(): every failure is logged and turned into None
get_sol_price(http) ==
    [ret   |-> IF http.ok THEN http.ret ELSE None,
     exc   |-> None,
     calls |-> <<Call("get_sol_price", [address |-> ""])>>,
     log   |-> IF http.ok THEN NoMsg ELSE Msg("error_price", "")]

\* export_transaction_history(wallet_address, filename); fs_ok: open() succeeds
export_transaction_history(wallet_address, filename, rpc, fs_ok) ==
    LET t == receive_solana_transactions(wallet_address, DefaultLimit, rpc)
        w == Call("write_file", [address |-> filename])
    IN  IF t.exc # None THEN t
        ELSE IF ~Truthy(t.ret) THEN t
        ELSE IF ~fs_ok
        THEN [ret |-> None, exc |-> "OSError", calls |-> t.calls,
              log |-> NoMsg]
        ELSE [ret |-> None, exc |-> None, calls |-> Append(t.calls, w),
              log |-> Msg("info_exported", filename)]

\* generate_with_deepseek(prompt, model="default", max_tokens=100)
generate_with_deepseek(prompt, model, max_tokens, http) ==
    LET c == Call("deepseek_post",
                  [prompt |-> prompt, model |-> model,
                   max_tokens |-> max_tokens])
    IN  IF http.ok
        THEN [ret |-> http.ret, exc |-> None, calls |-> <<c>>, log |-> NoMsg,
              cache |-> Put(content_cache, prompt, http.ret)]
        ELSE [ret |-> None, exc |-> "RequestException", calls |-> <<c>>,
              log |-> Msg("error_deepseek", "RequestException"),
              cache |-> content_cache]

----------------------------------------------------------------------------
(* chatbot(): dispatch and the handlers' call sites *)

\* The if/elif chain on cmd (lines 211-289) with the else branch missing:
\* an unknown verb falls into the last branch that calls out
BranchNoElse(cmd) == IF cmd \in KnownVerbs THEN cmd ELSE "price"

\* The if/elif chain on cmd (lines 211-289)
Branch(cmd) == IF cmd \in KnownVerbs THEN cmd ELSE "invalid"

\* The raw first tokens that select branch b
Verbs(b) == {raw \in RawVerbs : Branch(Lower(raw)) = b}

\* `except Exception` narrowed to the chain client's error class
CatchesOnlyRPC(exc) == exc = "RPCException"

\* `except Exception as e` (line 291)
Catches(exc) == exc \in ExceptionClasses

Out(p)   == Res(p, NoMsg, <<>>, None, "none")
Raise(e) == Res(NoMsg, NoMsg, <<>>, e, "none")

\* lines 211-216
cmd_connect_wallet(args, typed) ==
    IF Len(args) # 1
    THEN [res |-> Out(UsageMsg("connect_wallet")), wallets |-> wallets,
          typed |-> ""]
    ELSE LET c == connect_wallet(args[1], None, typed)
         IN  [res |-> Res(NoMsg, c.log, <<>>, c.exc, "none"),
              wallets |-> c.wallets, typed |-> typed]

\* lines 225-235
cmd_send(args, code, now, sign_ok, rpc) ==
    IF Len(args) < 3 THEN Out(UsageMsg("send"))
    ELSE LET amount == ParseInt(args[3])
             token_address == IF Len(args) > 3 THEN args[4] ELSE None
         IN  IF ~amount.ok THEN Raise("ValueError")
             ELSE IF args[1] \notin DOMAIN wallets THEN Out(NotFound(args[1]))
             ELSE LET s == send_solana_transaction(wallets[args[1]], args[2],
                               amount.val, token_address, code, now, sign_ok,
                               rpc)
                  IN  Res(IF s.exc = None
                          THEN Msg("Transaction Result", s.ret) ELSE NoMsg,
                          s.log, s.calls, s.exc, s.otp)

\* lines 237-247
cmd_receive(args, rpc) ==
    IF Len(args) < 1 THEN Out(UsageMsg("receive"))
    ELSE LET limit == IF Len(args) > 1 THEN ParseInt(args[2])
                      ELSE [ok |-> TRUE, val |-> DefaultLimit]
         IN  IF ~limit.ok THEN Raise("ValueError")
             ELSE IF args[1] \notin DOMAIN wallets THEN Out(NotFound(args[1]))
             ELSE LET t == receive_solana_transactions(
                               wallets[args[1]].public_key, limit.val, rpc)
                  IN  Res(IF t.exc = None
                          THEN Msg("Transaction History", t.ret) ELSE NoMsg,
                          t.log, t.calls, t.exc, "none")

\* lines 249-258 without the `wallet_name not in wallets` test
cmd_nfts_unchecked(args, http) ==
    IF Len(args) # 1 THEN Out(UsageMsg("nfts"))
    ELSE LET kp == IF args[1] \in DOMAIN wallets THEN wallets[args[1]]
                   ELSE [secret |-> "", public_key |-> ""]
             n  == get_nfts(kp.public_key, http)
         IN  Res(Msg("NFTs", n.ret), n.log, n.calls, n.exc, "none")

\* lines 249-258
cmd_nfts(args, http) ==
    IF Len(args) # 1 THEN Out(UsageMsg("nfts"))
    ELSE IF args[1] \notin DOMAIN wallets THEN Out(NotFound(args[1]))
    ELSE LET n == get_nfts(wallets[args[1]].public_key, http)
         IN  Res(Msg("NFTs", n.ret), n.log, n.calls, n.exc, "none")

\* lines 260-262
cmd_price(args, http) ==
    LET q == get_sol_price(http)
    IN  Res(Msg("Current SOL Price", q.ret), q.log, q.calls, q.exc, "none")

\* lines 264-272
cmd_generate(args, http) ==
    IF Len(args) < 1
    THEN [res |-> Out(UsageMsg("generate")), cache |-> content_cache]
    ELSE LET model == IF Len(args) > 1 THEN args[2] ELSE "default"
             max_tokens == IF Len(args) > 2 THEN ParseInt(args[3])
                           ELSE [ok |-> TRUE, val |-> DefaultMaxTokens]
         IN  IF ~max_tokens.ok
             THEN [res |-> Raise("ValueError"), cache |-> content_cache]
             ELSE LET g == generate_with_deepseek(args[1], model,
                                                  max_tokens.val, http)
                  IN  [res |-> Res(IF g.exc = None
                                   THEN Msg("Generated Content", g.ret)
                                   ELSE NoMsg,
                                   g.log, g.calls, g.exc, "none"),
                       cache |-> g.cache]

\* lines 274-282
cmd_export_history(args, rpc, fs_ok) ==
    IF Len(args) < 2 THEN Out(UsageMsg("export_history"))
    ELSE IF args[1] \notin DOMAIN wallets THEN Out(NotFound(args[1]))
    ELSE LET x == export_transaction_history(wallets[args[1]].public_key,
                                             args[2], rpc, fs_ok)
         IN  Res(NoMsg, x.log, x.calls, x.exc, "none")

\* What one iteration leaves behind besides the pointer and the cache
Iteration(line, r, typed, registry) ==
    /\ wallets' = registry
    /\ command' = line
    /\ printed' = IF r.exc = None THEN r.printed
                  ELSE IF Catches(r.exc) THEN ErrorMsg(r.exc) ELSE NoMsg
    /\ logged'  = r.logged
    /\ calls'   = r.calls
    /\ raised'  = r.exc
    /\ otp'     = r.otp
    /\ key_in'  = typed
    /\ overwrote' = (\E n \in DOMAIN wallets : registry[n] # wallets[n])
    /\ pc'      = IF r.exc = None \/ Catches(r.exc) THEN "awaiting"
                  ELSE "crashed"

----------------------------------------------------------------------------
(* Actions: one iteration of the loop each *)

Init ==
    /\ wallets = [n \in {} |-> None]
    /\ current_wallet = None
    /\ content_cache = [n \in {} |-> None]
    /\ pc = "awaiting"
    /\ command = <<>>
    /\ printed = NoMsg
    /\ logged = NoMsg
    /\ calls = <<>>
    /\ raised = None
    /\ otp = "none"
    /\ key_in = ""
    /\ overwrote = FALSE

\* lines 203-205: an empty line
CmdEmpty ==
    /\ pc = "awaiting"
    /\ Iteration(<<>>, Out(NoMsg), "", wallets)
    /\ UNCHANGED <<current_wallet, content_cache>>

\* lines 211-216
CmdConnect ==
    /\ pc = "awaiting"
    /\ \E raw \in Verbs("connect_wallet"), args \in ShortArgs :
        \E c \in {cmd_connect_wallet(args, typed) : typed \in KeyTexts} :
            Iteration(<<raw>> \o args, c.res, c.typed, c.wallets)
    /\ UNCHANGED <<current_wallet, content_cache>>

\* lines 218-223
CmdSwitch ==
    /\ pc = "awaiting"
    /\ \E raw \in Verbs("switch_wallet"), args \in ShortArgs :
        /\ IF Len(args) # 1
           THEN /\ Iteration(<<raw>> \o args, Out(UsageMsg("switch_wallet")),
                             "", wallets)
                /\ current_wallet' = current_wallet
           ELSE LET w == switch_wallet(args[1])
                IN  /\ Iteration(<<raw>> \o args,
                                 Res(NoMsg, w.log, <<>>, w.exc, "none"), "",
                                 wallets)
                    /\ current_wallet' = w.current
        /\ UNCHANGED content_cache

\* lines 225-235
CmdSend ==
    /\ pc = "awaiting"
    /\ \E raw \in Verbs("send"), args \in Args :
        \E r \in {cmd_send(args, code, now, sign_ok, rpc) :
                    code \in Codes, now \in Codes, sign_ok \in BOOLEAN,
                    rpc \in SendOutcomes} :
            Iteration(<<raw>> \o args, r, "", wallets)
    /\ UNCHANGED <<current_wallet, content_cache>>

\* lines 237-247
CmdReceive ==
    /\ pc = "awaiting"
    /\ \E raw \in Verbs("receive"), args \in ShortArgs :
        \E r \in {cmd_receive(args, rpc) : rpc \in HistoryOutcomes} :
            Iteration(<<raw>> \o args, r, "", wallets)
    /\ UNCHANGED <<current_wallet, content_cache>>

\* lines 249-258
CmdNfts ==
    /\ pc = "awaiting"
    /\ \E raw \in Verbs("nfts"), args \in ShortArgs :
        \E r \in {cmd_nfts(args, http) : http \in HttpOutcomes} :
            Iteration(<<raw>> \o args, r, "", wallets)
    /\ UNCHANGED <<current_wallet, content_cache>>

\* lines 260-262
CmdPrice ==
    /\ pc = "awaiting"
    /\ \E raw \in Verbs("price"), args \in ShortArgs :
        \E r \in {cmd_price(args, http) : http \in HttpOutcomes} :
            Iteration(<<raw>> \o args, r, "", wallets)
    /\ UNCHANGED <<current_wallet, content_cache>>

\* lines 264-272
CmdGenerate ==
    /\ pc = "awaiting"
    /\ \E raw \in Verbs("generate"), args \in Args :
        \E g \in {cmd_generate(args, http) : http \in GenOutcomes} :
            /\ Iteration(<<raw>> \o args, g.res, "", wallets)
            /\ content_cache' = g.cache
    /\ UNCHANGED current_wallet

\* lines 274-282
CmdExportHistory ==
    /\ pc = "awaiting"
    /\ \E raw \in Verbs("export_history"), args \in ShortArgs :
        \E r \in {cmd_export_history(args, rpc, fs_ok) :
                    rpc \in HistoryOutcomes, fs_ok \in BOOLEAN} :
            Iteration(<<raw>> \o args, r, "", wallets)
    /\ UNCHANGED <<current_wallet, content_cache>>

\* lines 284-286
CmdExit ==
    /\ pc = "awaiting"
    /\ \E raw \in Verbs("exit"), args \in ShortArgs :
        /\ command' = <<raw>> \o args
        /\ printed' = GoodbyeMsg
        /\ logged' = NoMsg
        /\ calls' = <<>>
        /\ raised' = None
        /\ otp' = "none"
        /\ key_in' = ""
        /\ overwrote' = FALSE
        /\ wallets' = wallets
        /\ pc' = "exited"
    /\ UNCHANGED <<current_wallet, content_cache>>

\* lines 288-289
CmdInvalid ==
    /\ pc = "awaiting"
    /\ \E raw \in Verbs("invalid"), args \in ShortArgs :
        /\ Iteration(<<raw>> \o args, Out(InvalidMsg), "", wallets)
    /\ UNCHANGED <<current_wallet, content_cache>>

Next ==
    \/ CmdEmpty
    \/ CmdConnect
    \/ CmdSwitch
    \/ CmdSend
    \/ CmdReceive
    \/ CmdNfts
    \/ CmdPrice
    \/ CmdGenerate
    \/ CmdExportHistory
    \/ CmdExit
    \/ CmdInvalid

Spec == Init /\ [][Next]_vars

----------------------------------------------------------------------------
(* Properties *)

\* The last line read, as the loop splits it (lines 207-208)
HasCmd   == command # <<>>
Cmd      == Lower(command[1])
CmdArgs  == Tail(command)
NArgs    == Len(command) - 1

IsIntText(t) == t \in DOMAIN DecimalValue

ChainVerbs == {"send", "receive", "nfts", "export_history"}

RegistryUntouched == wallets' = wallets /\ current_wallet' = current_wallet

\* C1: after every iteration the loop is awaiting a command again, whatever
\* the handler did (success, any raised error, usage failure, unknown verb);
\* the loop has stopped exactly when the line read was the exit command, and
\* it never dies of a handler error.
C1_LoopSurvives ==
    /\ pc \in {"awaiting", "exited"}
    /\ pc = "exited" <=> (HasCmd /\ Cmd = "exit")
    /\ raised # None => (pc = "awaiting" /\ printed = ErrorMsg(raised))

C1_Witness ==
    /\ pc = "awaiting" /\ HasCmd /\ Cmd = "send"
    /\ raised = "RPCException" /\ Len(calls) = 1

\* A switch_wallet line naming a wallet that is not in the registry
SwitchMiss ==
    /\ HasCmd /\ Cmd = "switch_wallet" /\ NArgs = 1
    /\ CmdArgs[1] \notin DOMAIN wallets

\* C2 (as stated): switch_wallet of an absent name ends in an error outcome
\* reported to the caller, not in a normal return.
C2_Original == SwitchMiss => raised # None

\* C2 (amended): switch_wallet of an absent name logs the not-found error and
\* returns normally (nothing is raised, nothing is printed); the active
\* pointer and the registry are exactly as before the call.
C2_SwitchMissLogsAndKeepsPointer ==
    [][SwitchMiss' =>
        /\ raised' = None
        /\ logged' = Msg("error_not_found", CmdArgs'[1])
        /\ printed' = NoMsg
        /\ RegistryUntouched
        /\ pc' = "awaiting"]_vars

C2_Witness == SwitchMiss /\ current_wallet # None /\ CmdArgs[1] = "bob"

\* A send line with at least 3 arguments whose third is no integer literal
SendBadAmount ==
    /\ HasCmd /\ Cmd = "send" /\ NArgs >= 3
    /\ ~IsIntText(CmdArgs[3])

\* C3 (as stated): such a line prints the send usage message and invokes
\* nothing.
C3_Original ==
    SendBadAmount =>
        /\ printed = UsageMsg("send")
        /\ calls = <<>>
        /\ otp = "none"

\* C3 (amended): such a line is rejected before dispatch by the ValueError of
\* int(), which the loop's handler prints as "Error: ..." (not the usage
\* message); send_solana_transaction is not invoked (no 2FA prompt), no
\* external call is made, nothing changes and the loop awaits the next
\* command, whether or not the named wallet is connected.
C3_BadAmountRejectedByValueError ==
    [][SendBadAmount' =>
        /\ raised' = "ValueError"
        /\ printed' = ErrorMsg("ValueError")
        /\ calls' = <<>>
        /\ otp' = "none"
        /\ RegistryUntouched
        /\ content_cache' = content_cache
        /\ pc' = "awaiting"]_vars

C3_Witness == SendBadAmount /\ CmdArgs[1] \in DOMAIN wallets

IsSubmit(c) == c.fn = "send_transaction"

\* C4: the chain client's send_transaction is called only in a send command
\* whose one-time code was accepted; a rejected code makes no external call
\* at all and leaves the registry and the active pointer unchanged.
C4_SubmitOnlyAfter2FA ==
    /\ [](\A i \in DOMAIN calls :
            IsSubmit(calls[i]) => (otp = "ok" /\ HasCmd /\ Cmd = "send"))
    /\ [][otp' = "bad" =>
            /\ calls' = <<>>
            /\ raised' = None
            /\ RegistryUntouched]_vars

C4_Witness ==
    /\ otp = "bad" /\ HasCmd /\ Cmd = "send"
    /\ CmdArgs[1] \in DOMAIN wallets
    /\ printed = Msg("Transaction Result", None)

\* A chain-related line that leaves out the wallet name.  `receive` and `nfts`
\* take the name as their only required argument, so the line is the bare
\* verb; a send or export_history line without the name is one argument short
\* in the same way and fails the same arity test.
OmitsWalletName ==
    /\ HasCmd /\ Cmd \in {"receive", "nfts"} /\ NArgs = 0

\* C5 (as stated): once switch_wallet(w) succeeded, a chain-related command
\* without a wallet name is served for wallet w (an external call is made for
\* it) instead of being rejected.
C5_Original ==
    (OmitsWalletName /\ current_wallet # None) =>
        /\ printed.kind # "usage"
        /\ calls # <<>>

\* C6: a line whose first token, lower-cased, is no known verb prints the
\* "Invalid command" message, makes no external call and leaves the registry,
\* the active pointer and the content cache unchanged.
C6_UnknownVerbChangesNothing ==
    [][(HasCmd' /\ Cmd' \notin KnownVerbs) =>
        /\ printed' = InvalidMsg
        /\ calls' = <<>>
        /\ raised' = None
        /\ RegistryUntouched
        /\ content_cache' = content_cache
        /\ pc' = "awaiting"]_vars

C6_Witness ==
    /\ HasCmd /\ command[1] = "HELP" /\ printed = InvalidMsg
    /\ DOMAIN wallets # {} /\ DOMAIN content_cache # {}

\* 'send w Recipient N' with w connected, N an integer literal, no token
\* address, and the one-time code accepted
SendAccepted ==
    /\ HasCmd /\ Cmd = "send" /\ NArgs = 3
    /\ IsIntText(CmdArgs[3])
    /\ CmdArgs[1] \in DOMAIN wallets
    /\ otp = "ok"

ExpectedSubmit ==
    SubmitCall(wallets[CmdArgs[1]], CmdArgs[2], DecimalValue[CmdArgs[3]], None)

OneSubmitReported ==
    /\ calls = <<ExpectedSubmit>>
    /\ \/ /\ raised = None
          /\ logged.kind = "info_sent"
          /\ printed = Msg("Transaction Result", logged.val)
       \/ /\ raised = "RPCException"
          /\ printed = ErrorMsg("RPCException")

ChainMiss ==
    /\ HasCmd /\ Cmd \in ChainVerbs /\ NArgs >= 1
    /\ CmdArgs[1] \notin DOMAIN wallets

\* The arity test of the line's branch passes
ArityOk ==
    CASE Cmd = "send"           -> NArgs >= 3
      [] Cmd = "receive"        -> NArgs >= 1
      [] Cmd = "nfts"           -> NArgs = 1
      [] Cmd = "export_history" -> NArgs >= 2
      [] OTHER                  -> TRUE

\* The integer arguments of the line's branch are integer literals
IntsOk ==
    CASE Cmd = "send"    -> NArgs >= 3 => IsIntText(CmdArgs[3])
      [] Cmd = "receive" -> NArgs >= 2 => IsIntText(CmdArgs[2])
      [] OTHER           -> TRUE

\* C8 (as stated): a chain-related command (with enough arguments) naming a
\* wallet that is not in the registry prints the not-found message and makes
\* no external call.
C8_Original ==
    (ChainMiss /\ ArityOk) =>
        /\ printed = NotFound(CmdArgs[1])
        /\ calls = <<>>

\* C8 (amended): a chain-related command naming a wallet that is not in the
\* registry makes no call to the chain client or the NFT endpoint, writes no
\* file, asks for no one-time code and leaves the registry and the active
\* pointer unchanged; it prints the not-found message when its argument count
\* is valid and its integer arguments parse (otherwise the usage message or
\* the int() error comes first).
C8_MissingWalletMakesNoCall ==
    [][ChainMiss' =>
        /\ calls' = <<>>
        /\ otp' = "none"
        /\ RegistryUntouched
        /\ pc' = "awaiting"
        /\ (ArityOk' /\ IntsOk') => printed' = NotFound(CmdArgs'[1])
        /\ ~ArityOk' => printed' = UsageMsg(Cmd')
        /\ (ArityOk' /\ ~IntsOk') => printed' = ErrorMsg("ValueError")]_vars

C8_Witness ==
    /\ ChainMiss /\ Cmd = "send" /\ printed = NotFound(CmdArgs[1])
    /\ DOMAIN wallets # {}

\* C9: the active-wallet pointer is unset or names a wallet in the registry.
C9_PointerNeverDangles ==
    current_wallet = None \/ current_wallet \in DOMAIN wallets

C9_Witness ==
    /\ current_wallet # None
    /\ HasCmd /\ Cmd = "connect_wallet" /\ NArgs = 1
    /\ CmdArgs[1] = current_wallet /\ raised = None /\ overwrote

\* A connect_wallet line whose key text decoded to a keypair
ConnectOk ==
    /\ HasCmd /\ Cmd = "connect_wallet" /\ NArgs = 1
    /\ raised = None

\* C10: a successful connect_wallet(name, k) leaves name bound to the
\* credential derived from k alone, replacing whatever was bound before, and
\* leaves every other entry as it was.
C10_LastConnectWins ==
    [][ConnectOk' =>
        LET name == CmdArgs'[1]
            kp   == KeypairFromSecret(B58Decode(key_in').bytes).kp
        IN  /\ DOMAIN wallets' = (DOMAIN wallets) \cup {name}
            /\ wallets'[name] = kp
            /\ kp \in Keypairs
            /\ \A o \in (DOMAIN wallets) \ {name} : wallets'[o] = wallets[o]]_vars

C10_Witness ==
    /\ ConnectOk /\ overwrote /\ key_in = "KeyText2"
    /\ wallets[CmdArgs[1]].public_key = "Pub2"
    /\ DOMAIN wallets = Names

====
